---- MODULE Spec2Model ----
(***************************************************************************)
(* Session transport layer of the StaticMCP bridge (src/bridge.js):        *)
(* TransportManager.handleMcpRequest, the session table `transports`, the  *)
(* close hook of a transport, closeAllTransports and the SIGINT handler.   *)
(*                                                                         *)
(* The MCP SDK (StreamableHTTPServerTransport, McpServer) is the           *)
(* environment: each of its asynchronous calls resolves or rejects, and    *)
(* its callbacks (onsessioninitialized, onclose) fire at the points the    *)
(* SDK's contract allows.  Node runs one callback at a time, so every      *)
(* action is the synchronous run between two suspension points.            *)
(*                                                                         *)
(* The event log (InMemoryEventStore: storeEvent, replayEventsAfter) is    *)
(* specified on its own, in EventLogSpec; the process around the manager   *)
(* (main, startServer, validateSourcePath, the /mcp route) in ServerSpec;  *)
(* SchemaConverter.jsonSchemaToMcpInputSchema (src/src/converter.ts) in    *)
(* ConverterSpec.                                                          *)
(***************************************************************************)
EXTENDS Integers, Sequences, FiniteSets, Bags, TLC

\* ------------------------------------------------------------------ bounds

\* Transports (and event stores) that may be constructed in one behaviour.
MaxTransports == 2

\* Requests that may be in flight (between arrival and response) at once.
MaxInFlight == 2

\* Events that may be appended to the event log in one behaviour.
MaxEvents == 3

\* Properties of a JSON schema handed to the converter.
MaxProps == 2

\* ------------------------------------------------------------- JS values

\* The JavaScript value undefined (an absent header, an unset sessionId).
Undefined == "<undefined>"

\* randomUUID() values, in the order in which they are drawn.
UuidPool == <<"uuid-1", "uuid-2", "uuid-3", "uuid-4">>

Uuids == {UuidPool[i] : i \in 1..MaxTransports}

\* Property names every plain object inherits from Object.prototype.
ObjectPrototypeKeys == {"constructor"}

\* Values of req.headers['mcp-session-id'] that are tried.
Headers == {Undefined, "", "constructor"} \cup Uuids

Methods == {"GET", "POST", "DELETE"}

Transports == 1..MaxTransports

\* JavaScript truthiness of a header value (a string or undefined).
Truthy(s) == s # Undefined /\ s # ""

\* A plain object {} is a list of own properties in insertion order.
Keys(o) == {o[i].key : i \in DOMAIN o}

KeyOrder(o) == [i \in DOMAIN o |-> o[i].key]

HasOwn(o, k) == k \in Keys(o)

OwnValue(o, k) == o[CHOOSE i \in DOMAIN o : o[i].key = k].val

\* o[k]: the own property, else the member inherited from Object.prototype,
\* else undefined.
Read(o, k) ==
    IF HasOwn(o, k) THEN [kind |-> "transport", id |-> OwnValue(o, k)]
    ELSE IF k \in ObjectPrototypeKeys THEN [kind |-> "inherited", id |-> 0]
    ELSE [kind |-> "undefined", id |-> 0]

\* o[k] = v
Put(o, k, v) ==
    IF HasOwn(o, k)
    THEN [i \in DOMAIN o |-> IF o[i].key = k THEN [key |-> k, val |-> v] ELSE o[i]]
    ELSE Append(o, [key |-> k, val |-> v])

\* delete o[k]: no effect, and no error, when k is not an own property.
Delete(o, k) == SelectSeq(o, LAMBDA e : e.key # k)

\* ------------------------------------------------------- literal responses

BadRequestBody ==
    [jsonrpc |-> "2.0",
     error |-> [code |-> -32000,
                message |-> "Bad Request: No valid session ID provided or invalid initialization request"],
     id |-> "null"]

InternalErrorBody ==
    [jsonrpc |-> "2.0",
     error |-> [code |-> -32603, message |-> "Internal server error"],
     id |-> "null"]

\* --------------------------------------------------------------- state

VARIABLES
    transports,  \* TransportManager.transports: own properties, insertion order
    nCreated,    \* StreamableHTTPServerTransport objects constructed: 1..nCreated
    sessionId,   \* transport.sessionId of each transport (Undefined until the handshake)
    eventStore,  \* the InMemoryEventStore each transport was constructed with (0: none)
    nStores,     \* InMemoryEventStore objects constructed
    req,         \* the handleMcpRequest invocations in flight, suspended at an await
    out,         \* what the last step let the outside see, until it is taken note of
    sweep,       \* the closeAllTransports invocation
    exited,      \* process.exit(0) has run
    events,      \* one InMemoryEventStore: its events, in the order of their append
    last,        \* the last call on that event store and what it returned
    config,      \* parseConfig(): staticSourcePath, isHostedMode, isRemoteUrl
    boot,        \* how far main() has got, and what the validation found
    route,       \* the last run of the /mcp route handler, until it is taken note of
    jsonSchema,  \* the argument of SchemaConverter.jsonSchemaToMcpInputSchema
    converted    \* what that call returned or threw

vars == <<transports, nCreated, sessionId, eventStore, nStores, req, out, sweep, exited>>

\* A handleMcpRequest invocation at its entry: the session header it read, the
\* branch it took, its local `transport`, whether transport.handleRequest was
\* called, the response (headersSent, what handleMcpRequest itself wrote),
\* the exception its catch block caught, and how its promise settled.
Invocation(h) ==
    [pc |-> "entry", hdr |-> h, branch |-> "none", transport |-> {}, handled |-> FALSE,
     headersSent |-> FALSE, writes |-> <<>>,
     threw |-> "none", sentAtCatch |-> FALSE, settled |-> "pending"]

\* Nothing to see: the last step returned no invocation and ran no close hook.
Quiet == [pc |-> "none"]

\* The event loop runs one callback at a time until the process exits.  No
\* callback reads `out`: it is taken note of (Observed) before the next
\* callback runs, so that outcomes do not pile up in the state.
Running == ~exited /\ out = Quiet

\* closeAllTransports not entered: `keys` are the keys for-in has yet to
\* visit and `cur` the key whose close() is awaited; `start` (the keys of the
\* table when the loop began) and `closed` (the keys close() was called on)
\* record what the invocation did.
IdleSweep == [pc |-> "idle", keys |-> <<>>, cur |-> Undefined, start |-> <<>>, closed |-> {}]

\* The event store is looked at on its own (EventLogSpec): the transports
\* that call it belong to the SDK.
logVars == <<events, last>>

NoCall == [op |-> "none"]

\* The process around the TransportManager (ServerSpec): main, startServer,
\* validateSourcePath and the /mcp route.
serverVars == <<config, boot, route>>

\* A path or URL as the code looks at it: its text, the scheme a URL parser
\* finds in it (Undefined: none) and the host after the scheme.
Location(text, scheme, host) == [text |-> text, scheme |-> scheme, host |-> host]

Absent == Location(Undefined, Undefined, "")

RelativeFolder == Location("site", Undefined, "")

ExampleUrl == Location("https://example.com", "https", "example.com")

HostlessUrl == Location("https://", "https", "")

\* process.argv[2] as tried: none (hosted mode), a folder, a URL, a URL
\* without host.
Argv2 == {Absent, RelativeFolder, ExampleUrl, HostlessUrl}

\* req.query.url as tried.
UrlParams ==
    {Absent, Location("", Undefined, ""), Location("invalid-url", Undefined, ""),
     ExampleUrl, HostlessUrl, Location("mailto:x", "mailto", "")}

\* new URL(x) does not throw: x has a scheme, and a host where the scheme
\* requires one.
UrlParses(x) == x.scheme # Undefined /\ (x.scheme \in {"http", "https"} => x.host # "")

\* parseConfig(): hosted mode when there is no argument, a remote source when
\* the argument starts with http:// or https://.
ParseConfig(staticSourcePath) ==
    [staticSourcePath |-> staticSourcePath,
     isHostedMode |-> ~Truthy(staticSourcePath.text),
     isRemoteUrl |-> staticSourcePath.scheme \in {"http", "https"}]

\* path.resolve(p): a relative path is taken from the working directory.
PathResolve(p) == IF p.text = "site" THEN "/cwd/site" ELSE p.text

\* The source the CLI-mode route and startServer hand on.
SourcePath(c) ==
    IF c.isRemoteUrl THEN c.staticSourcePath.text ELSE PathResolve(c.staticSourcePath)

NoRoute == [pc |-> "none"]

\* main() has called app.listen after a validation that found the source.
Listening == [pc |-> "listening", probe |-> "ok"]

\* new TransportManager(), and an event store nothing was stored in.
Constructed ==
    /\ events = <<>>
    /\ last = NoCall
    /\ transports = <<>>
    /\ nCreated = 0
    /\ sessionId = [t \in Transports |-> Undefined]
    /\ eventStore = [t \in Transports |-> 0]
    /\ nStores = 0
    /\ req = EmptyBag
    /\ out = Quiet
    /\ sweep = IdleSweep
    /\ exited = FALSE

\* The converter (ConverterSpec).
converterVars == <<jsonSchema, converted>>

\* Property names, and the `type` values of property schemas, that are tried.
PropNames == {"valid", "invalid", "__proto__"}

TypeNames == {"string", "number", "integer", "boolean", "unknown-type", ""}

\* The values of jsonSchema.properties[name] that are tried: a string, null,
\* an object without `type`, an object with a `type`.
PropSchemas ==
    {[kind |-> "string", type |-> Undefined, description |-> Undefined],
     [kind |-> "null", type |-> Undefined, description |-> Undefined],
     [kind |-> "object", type |-> Undefined, description |-> "No type field"]}
    \cup {[kind |-> "object", type |-> t, description |-> Undefined] : t \in TypeNames}

\* typeof x
TypeOf(x) == IF x.kind = "null" THEN "object" ELSE x.kind

\* Object.entries(properties): up to MaxProps own properties, in their order.
PropertyLists ==
    UNION {{e \in [1..n -> [key : PropNames, val : PropSchemas]] :
               \A i, j \in 1..n : e[i].key = e[j].key => i = j} : n \in 0..MaxProps}

\* A schema: `properties` and `required` are absent (<<>>) or hold one value.
JsonSchemas ==
    [properties : {<<>>} \cup {<<p>> : p \in PropertyLists},
     required : {<<>>} \cup {<<r>> : r \in SUBSET PropNames}]

\* x || d for a field that is absent or holds an object or an array.
OrElse(x, d) == IF x = <<>> THEN d ELSE x[1]

NotConverted == [status |-> "none", value |-> <<>>]

\* The switch on propSchema.type.
BaseValidator(type) ==
    CASE type = "string" -> [typeName |-> "ZodString", int |-> FALSE]
      [] type = "number" -> [typeName |-> "ZodNumber", int |-> FALSE]
      [] type = "integer" -> [typeName |-> "ZodNumber", int |-> TRUE]
      [] type = "boolean" -> [typeName |-> "ZodBoolean", int |-> FALSE]
      [] OTHER -> [typeName |-> "ZodAny", int |-> FALSE]

\* validator.describe(description), then .optional() unless required.
Validator(propName, propSchema, isRequired) ==
    [base |-> BaseValidator(propSchema.type),
     description |-> IF Truthy(propSchema.description) THEN propSchema.description
                     ELSE propName,
     optional |-> ~isRequired]

\* zodValidators[propName] = validator: the setter of Object.prototype takes
\* an assignment to __proto__, which adds no own property.
Assign(o, k, v) == IF k = "__proto__" THEN o ELSE Put(o, k, v)

\* The loop over Object.entries(properties) from entry i on.  typeof null is
\* 'object', and reading `type` of null throws a TypeError.
RECURSIVE ConvertFrom(_, _, _, _)
ConvertFrom(entries, i, required, zodValidators) ==
    IF i > Len(entries) THEN [status |-> "returned", value |-> zodValidators]
    ELSE LET propName == entries[i].key
             propSchema == entries[i].val
         IN IF TypeOf(propSchema) # "object"
               THEN ConvertFrom(entries, i + 1, required, zodValidators)
            ELSE IF propSchema.kind = "null"
               THEN [status |-> "threw", value |-> <<>>]
            ELSE IF ~Truthy(propSchema.type)
               THEN ConvertFrom(entries, i + 1, required, zodValidators)
            ELSE ConvertFrom(entries, i + 1, required,
                             Assign(zodValidators, propName,
                                    Validator(propName, propSchema, propName \in required)))

JsonSchemaToMcpInputSchema(schema) ==
    LET properties == OrElse(schema.properties, <<>>)
        required == OrElse(schema.required, {})
    IN IF Len(properties) = 0 THEN [status |-> "returned", value |-> <<>>]
       ELSE ConvertFrom(properties, 1, required, <<>>)

\* The bridge serving a folder that was found.
Init ==
    /\ jsonSchema = [properties |-> <<>>, required |-> <<>>]
    /\ converted = NotConverted
    /\ config = ParseConfig(RelativeFolder)
    /\ boot = Listening
    /\ route = NoRoute
    /\ Constructed

\* The invocations in flight.
InFlight == BagToSet(req)

\* ------------------------------------------------------ handleMcpRequest

\* res.status(s).json(b): Express writes the head and the body.
Respond(q, s, b) ==
    [q EXCEPT !.writes = Append(@, [status |-> s, body |-> b]),
              !.headersSent = TRUE]

\* Mutant: the catch block only logs.
CatchSilent(q, source) ==
    [q EXCEPT !.threw = source, !.sentAtCatch = q.headersSent,
              !.pc = "done", !.settled = "resolved"]

\* Mutant: the catch block answers 500 without looking at headersSent.
CatchAlwaysAnswers(q, source) ==
    [Respond(q, 500, InternalErrorBody)
       EXCEPT !.threw = source, !.sentAtCatch = q.headersSent,
              !.pc = "done", !.settled = "resolved"]

\* The catch block: log, answer 500 unless the response has begun, return.
Catch(q, source) ==
    LET answered == IF ~q.headersSent THEN Respond(q, 500, InternalErrorBody) ELSE q
    IN [answered EXCEPT !.threw = source, !.sentAtCatch = q.headersSent,
                        !.pc = "done", !.settled = "resolved"]

\* A new invocation suspends at its first await.
Enters(q) ==
    /\ BagCardinality(req) < MaxInFlight
    /\ out' = Quiet
    /\ req' = req (+) SetToBag({q})

\* A new invocation returns without having awaited anything.
ReturnsAtOnce(q) ==
    /\ out' = q
    /\ req' = req

\* The invocation q in flight goes on as q2, suspended at the next await.
Suspends(q, q2) ==
    /\ req' = (req (-) SetToBag({q})) (+) SetToBag({q2})
    /\ out' = Quiet

\* The invocation q in flight returns as q2: its promise settles.
Returns(q, q2) ==
    /\ req' = req (-) SetToBag({q})
    /\ out' = q2

\* Mutant: the method is not looked at.
IsInitializationAnyMethod(h, m, i) ==
    /\ ~(Truthy(h) /\ Read(transports, h).kind # "undefined")
    /\ ~Truthy(h)
    /\ i

\* Mutant: the absence of a session id is not looked at.
IsInitializationAnyHeader(h, m, i) ==
    /\ ~(Truthy(h) /\ Read(transports, h).kind # "undefined")
    /\ m = "POST"
    /\ i

\* The routing conditions, evaluated in order.
IsKnown(h) == Truthy(h) /\ Read(transports, h).kind # "undefined"

IsInitialization(h, m, i) == ~IsKnown(h) /\ ~Truthy(h) /\ m = "POST" /\ i

\* Mutant: the request goes to the first transport of the table, whatever
\* its session id.
KnownBranchFirstEntry(h, m, i) ==
    /\ IsKnown(h)
    /\ LET q == [Invocation(h) EXCEPT !.branch = "known"]
       IN IF HasOwn(transports, h)
          THEN Enters([q EXCEPT !.transport = {transports[1].val}, !.handled = TRUE,
                                !.pc = "handling"])
          ELSE ReturnsAtOnce(Catch(q, "TypeError"))
    /\ UNCHANGED <<transports, nCreated, sessionId, eventStore, nStores>>

\* Branch 1: the table yields a value for the header; handleRequest is called
\* on it at once.  A value that is no transport has no handleRequest: the call
\* raises a TypeError inside the try block.
KnownBranch(h, m, i) ==
    /\ IsKnown(h)
    /\ LET v == Read(transports, h)
           q == [Invocation(h) EXCEPT !.branch = "known"]
       IN IF v.kind = "transport"
          THEN Enters([q EXCEPT !.transport = {v.id}, !.handled = TRUE,
                                !.pc = "handling"])
          ELSE ReturnsAtOnce(Catch(q, "TypeError"))
    /\ UNCHANGED <<transports, nCreated, sessionId, eventStore, nStores>>

\* Mutant: the manager draws the session id itself and registers the new
\* transport before the handshake.
InitBranchRegistersEarly(h, m, i) ==
    /\ IsInitialization(h, m, i)
    /\ nCreated < MaxTransports
    /\ LET t == nCreated + 1 IN
       /\ nStores' = nStores + 1
       /\ nCreated' = t
       /\ eventStore' = [eventStore EXCEPT ![t] = nStores + 1]
       /\ transports' = Put(transports, UuidPool[MaxTransports + 1], t)
       /\ Enters([Invocation(Undefined) EXCEPT !.branch = "init", !.transport = {t},
                                               !.pc = "createServer"])
    /\ UNCHANGED sessionId

\* Mutant: one event store, constructed once, is handed to every transport.
InitBranchSharedStore(h, m, i) ==
    /\ IsInitialization(h, m, i)
    /\ nCreated < MaxTransports
    /\ LET t == nCreated + 1 IN
       /\ nStores' = 1
       /\ nCreated' = t
       /\ eventStore' = [eventStore EXCEPT ![t] = 1]
       /\ Enters([Invocation(Undefined) EXCEPT !.branch = "init", !.transport = {t},
                                               !.pc = "createServer"])
    /\ UNCHANGED <<transports, sessionId>>

\* Branch 2: a new event store and a new transport wired to it, with the
\* close hook set; then createServer is awaited.  The header, absent or
\* empty, is not read again and is kept as read only where it is truthy.
InitBranch(h, m, i) ==
    /\ IsInitialization(h, m, i)
    /\ nCreated < MaxTransports
    /\ LET t == nCreated + 1 IN
       /\ nStores' = nStores + 1
       /\ nCreated' = t
       /\ eventStore' = [eventStore EXCEPT ![t] = nStores + 1]
       /\ Enters([Invocation(Undefined) EXCEPT !.branch = "init", !.transport = {t},
                                               !.pc = "createServer"])
    /\ UNCHANGED <<transports, sessionId>>

\* Branch 3: everything else is answered 400 and the handler returns.
RejectBranch(h, m, i) ==
    /\ ~IsKnown(h)
    /\ ~IsInitialization(h, m, i)
    /\ ReturnsAtOnce([Respond([Invocation(h) EXCEPT !.branch = "reject"],
                              400, BadRequestBody)
                        EXCEPT !.pc = "done", !.settled = "resolved"])
    /\ UNCHANGED <<transports, nCreated, sessionId, eventStore, nStores>>

\* A request arrives: handleMcpRequest runs to its first suspension point.
HandleMcpRequest(h, m, i) ==
    /\ Running
    /\ \/ KnownBranch(h, m, i)
       \/ InitBranch(h, m, i)
       \/ RejectBranch(h, m, i)
    /\ UNCHANGED <<sweep, exited>>

TransportOf(q) == CHOOSE t \in q.transport : TRUE

\* await createServer(...) resolves: server.connect(transport) is awaited.
CreateServerResolves(q) ==
    /\ Running
    /\ q.pc = "createServer"
    /\ Suspends(q, [q EXCEPT !.pc = "connect"])
    /\ UNCHANGED <<transports, nCreated, sessionId, eventStore, nStores, sweep, exited>>

\* Mutant: createServer is awaited outside the try block.
CreateServerRejectsUncaught(q) ==
    /\ Running
    /\ q.pc = "createServer"
    /\ Returns(q, [q EXCEPT !.threw = "createServer", !.pc = "done",
                            !.settled = "rejected"])
    /\ UNCHANGED <<transports, nCreated, sessionId, eventStore, nStores, sweep, exited>>

\* await createServer(...) rejects (e.g. two tools with one sanitized name).
CreateServerRejects(q) ==
    /\ Running
    /\ q.pc = "createServer"
    /\ Returns(q, Catch(q, "createServer"))
    /\ UNCHANGED <<transports, nCreated, sessionId, eventStore, nStores, sweep, exited>>

\* await server.connect(transport) resolves: handleRequest is called.
ConnectResolves(q) ==
    /\ Running
    /\ q.pc = "connect"
    /\ Suspends(q, [q EXCEPT !.pc = "handling", !.handled = TRUE])
    /\ UNCHANGED <<transports, nCreated, sessionId, eventStore, nStores, sweep, exited>>

\* Mutant: the catch block does not answer when server.connect rejected.
ConnectRejectsUnanswered(q) ==
    /\ Running
    /\ q.pc = "connect"
    /\ Returns(q, CatchSilent(q, "connect"))
    /\ UNCHANGED <<transports, nCreated, sessionId, eventStore, nStores, sweep, exited>>

\* await server.connect(transport) rejects.
ConnectRejects(q) ==
    /\ Running
    /\ q.pc = "connect"
    /\ Returns(q, Catch(q, "connect"))
    /\ UNCHANGED <<transports, nCreated, sessionId, eventStore, nStores, sweep, exited>>

\* sessionIdGenerator: () => randomUUID(); a value never drawn before.
Minted == {sessionId[t] : t \in Transports} \ {Undefined}

\* Mutant: the generator returns one and the same id.
RandomUUIDConstant == UuidPool[1]

RandomUUID == UuidPool[Cardinality(Minted) + 1]

\* Mutant: the callback registers the transport under the id of the first
\* session instead of its own.
OnSessionInitializedFirstId(tbl, sid, t) == Put(tbl, UuidPool[1], t)

\* onsessioninitialized: (sessionId) => { this.transports[sessionId] = transport; }
OnSessionInitialized(tbl, sid, t) == Put(tbl, sid, t)

\* The handshake succeeds inside handleRequest of the initialization request:
\* the transport draws its session id and signals success.
HandshakeSucceeds(q) ==
    /\ Running
    /\ q.pc = "handling"
    /\ q.branch = "init"
    /\ sessionId[TransportOf(q)] = Undefined
    /\ LET t == TransportOf(q)
           sid == RandomUUID
       IN /\ sessionId' = [sessionId EXCEPT ![t] = sid]
          /\ transports' = OnSessionInitialized(transports, sid, t)
    /\ out' = Quiet
    /\ UNCHANGED <<nCreated, eventStore, nStores, req, sweep, exited>>

\* await transport.handleRequest(...) resolves: the transport has answered
\* (a JSON reply, an event stream or an error status of its own).
HandleRequestResolves(q) ==
    /\ Running
    /\ q.pc = "handling"
    /\ Returns(q, [q EXCEPT !.headersSent = TRUE, !.pc = "done", !.settled = "resolved"])
    /\ UNCHANGED <<transports, nCreated, sessionId, eventStore, nStores, sweep, exited>>

\* await transport.handleRequest(...) rejects, before or after the transport
\* began the response.
HandleRequestRejects(q, sent) ==
    /\ Running
    /\ q.pc = "handling"
    /\ Returns(q, Catch([q EXCEPT !.headersSent = sent], "handleRequest"))
    /\ UNCHANGED <<transports, nCreated, sessionId, eventStore, nStores, sweep, exited>>

\* ------------------------------------------------------------ close hook

\* Mutant: the entry is removed by position, and the last entry goes when the
\* session id is not found.
OnCloseByPosition(tbl, sid) ==
    IF tbl = <<>> THEN tbl
    ELSE IF Truthy(sid) /\ HasOwn(tbl, sid) THEN Delete(tbl, sid)
    ELSE SubSeq(tbl, 1, Len(tbl) - 1)

\* Mutant: the hook of a session empties the table.
OnCloseClearsTable(tbl, sid) == IF Truthy(sid) THEN <<>> ELSE tbl

\* transport.onclose = () => { const sid = transport.sessionId;
\*     if (sid && this.transports[sid]) delete this.transports[sid]; }
OnClose(tbl, sid) ==
    IF Truthy(sid) /\ Read(tbl, sid).kind # "undefined" THEN Delete(tbl, sid) ELSE tbl

\* The close hook of a constructed transport fires (explicit close, peer
\* disconnect, protocol-level termination, close() during the sweep).
CloseHook(t) ==
    /\ Running
    /\ t \in 1..nCreated
    /\ transports' = OnClose(transports, sessionId[t])
    /\ out' = [pc |-> "hook", t |-> t, had |-> HasOwn(transports, sessionId[t])]
    /\ UNCHANGED <<nCreated, sessionId, eventStore, nStores, req, sweep, exited>>

\* ---------------------------------------------------- closeAllTransports

\* The SIGINT handler runs: closeAllTransports() is entered and for-in fixes
\* the keys it will visit.
CloseAllStart ==
    /\ Running
    /\ sweep.pc = "idle"
    /\ sweep' = [pc |-> "loop", keys |-> KeyOrder(transports), cur |-> Undefined,
                 start |-> KeyOrder(transports), closed |-> {}]
    /\ out' = Quiet
    /\ UNCHANGED <<transports, nCreated, sessionId, eventStore, nStores, req, exited>>

\* The next iteration: a key deleted since the loop began is skipped,
\* otherwise close() is called on its transport and awaited.
SweepNext ==
    /\ Running
    /\ sweep.pc = "loop"
    /\ sweep.keys # <<>>
    /\ LET k == Head(sweep.keys) IN
       sweep' = IF HasOwn(transports, k)
                THEN [sweep EXCEPT !.pc = "awaitClose", !.cur = k, !.keys = Tail(@),
                                   !.closed = @ \cup {k}]
                ELSE [sweep EXCEPT !.keys = Tail(@)]
    /\ out' = Quiet
    /\ UNCHANGED <<transports, nCreated, sessionId, eventStore, nStores, req, exited>>

\* Mutant: after close() the first entry of the table is deleted, whichever
\* session it belongs to.
SweepCloseResolvesFirstEntry ==
    /\ Running
    /\ sweep.pc = "awaitClose"
    /\ transports' = IF transports = <<>> THEN transports ELSE Tail(transports)
    /\ sweep' = [sweep EXCEPT !.pc = "loop", !.cur = Undefined]
    /\ out' = Quiet
    /\ UNCHANGED <<nCreated, sessionId, eventStore, nStores, req, exited>>

\* await close() resolves: the entry is deleted.
SweepCloseResolves ==
    /\ Running
    /\ sweep.pc = "awaitClose"
    /\ transports' = Delete(transports, sweep.cur)
    /\ sweep' = [sweep EXCEPT !.pc = "loop", !.cur = Undefined]
    /\ out' = Quiet
    /\ UNCHANGED <<nCreated, sessionId, eventStore, nStores, req, exited>>

\* Mutant: close() is awaited outside the try block, so that its rejection
\* leaves the loop and closeAllTransports rejects.
SweepCloseRejectsUncaught ==
    /\ Running
    /\ sweep.pc = "awaitClose"
    /\ sweep' = [sweep EXCEPT !.pc = "threw", !.cur = Undefined]
    /\ out' = Quiet
    /\ UNCHANGED <<transports, nCreated, sessionId, eventStore, nStores, req, exited>>

\* await close() rejects: the error is logged and the loop goes on.
SweepCloseRejects ==
    /\ Running
    /\ sweep.pc = "awaitClose"
    /\ sweep' = [sweep EXCEPT !.pc = "loop", !.cur = Undefined]
    /\ out' = Quiet
    /\ UNCHANGED <<transports, nCreated, sessionId, eventStore, nStores, req, exited>>

\* Mutant: the SIGINT handler does not await closeAllTransports().
SweepFinishNotAwaited ==
    /\ Running
    /\ sweep.pc \in {"loop", "awaitClose"}
    /\ exited' = TRUE
    /\ out' = Quiet
    /\ UNCHANGED <<transports, nCreated, sessionId, eventStore, nStores, req, sweep>>

\* The loop is over: closeAllTransports returns and the SIGINT handler goes
\* on to process.exit(0).
SweepFinish ==
    /\ Running
    /\ sweep.pc = "loop"
    /\ sweep.keys = <<>>
    /\ exited' = TRUE
    /\ sweep' = [sweep EXCEPT !.pc = "returned"]
    /\ out' = Quiet
    /\ UNCHANGED <<transports, nCreated, sessionId, eventStore, nStores, req>>

\* ------------------------------------------------------------ event log

\* Stream ids (one holds the separator, one begins like another) and messages.
Streams == {"stream-1", "stream-2", "stream-1_2"}

Messages == {"M1", "M2", "M3"}

\* The last part of an event id, eight characters of [a-z0-9].
Suffixes == {"k3x9q2ab", "0z7m1c4d"}

\* Event ids that no append returns: the empty and a malformed one.
ForeignIds == {"", "invalid-id"}

\* Mutant: the number in the id is a constant.
GenerateEventIdConstant(streamId, sequence, suffix) ==
    streamId \o "_" \o ToString(1) \o "_" \o suffix

\* The id of the event of the given stream stored as the sequence-th event:
\* the stream id, the number, the suffix.
GenerateEventId(streamId, sequence, suffix) ==
    streamId \o "_" \o ToString(sequence) \o "_" \o suffix

\* The ids another event store returned for the first two events appended to
\* one of its streams: this log may have returned an id of the same text or
\* not.
OtherLogIds ==
    {GenerateEventId("stream-1", sequence, suffix) : sequence \in 1..2, suffix \in Suffixes}

\* Mutant: the log keeps the two newest events only.
StoreEventEvicting(streamId, message, suffix) ==
    /\ Len(events) < MaxEvents
    /\ LET eventId == GenerateEventId(streamId, Len(events) + 1, suffix)
           kept == IF Len(events) >= 2 THEN Tail(events) ELSE events
       IN
       /\ events' = Append(kept, [id |-> eventId, streamId |-> streamId,
                                  message |-> message])
       /\ last' = [op |-> "storeEvent", streamId |-> streamId, message |-> message,
                   eventId |-> eventId]
    /\ UNCHANGED <<vars, serverVars, converterVars>>

\* storeEvent(streamId, message): the event goes to the end of the log, its
\* id is returned.  It always succeeds.
StoreEvent(streamId, message, suffix) ==
    /\ Len(events) < MaxEvents
    /\ LET eventId == GenerateEventId(streamId, Len(events) + 1, suffix) IN
       /\ events' = Append(events, [id |-> eventId, streamId |-> streamId,
                                    message |-> message])
       /\ last' = [op |-> "storeEvent", streamId |-> streamId, message |-> message,
                   eventId |-> eventId]
    /\ UNCHANGED <<vars, serverVars, converterVars>>

\* Mutant: an id that is not found stands for the oldest event.
LookupOrOldest(log, eventId) ==
    IF \E n \in DOMAIN log : log[n].id = eventId
    THEN {n \in DOMAIN log : log[n].id = eventId}
    ELSE {1} \cap DOMAIN log

\* The positions of the log that hold the id.
Lookup(log, eventId) == {n \in DOMAIN log : log[n].id = eventId}

\* Mutant: every later event is passed to the sink, whatever its stream.
SendAfterAnyStream(log, n, streamId) ==
    [k \in 1..(Len(log) - n) |-> [id |-> log[n + k].id, message |-> log[n + k].message]]

\* Mutant: the event looked up is passed to the sink too.
SendAfterInclusive(log, n, streamId) ==
    LET later == SelectSeq(SubSeq(log, n, Len(log)), LAMBDA e : e.streamId = streamId)
    IN [k \in DOMAIN later |-> [id |-> later[k].id, message |-> later[k].message]]

\* Mutant: the later events are passed to the sink newest first.
SendAfterNewestFirst(log, n, streamId) ==
    LET later == SelectSeq(SubSeq(log, n + 1, Len(log)), LAMBDA e : e.streamId = streamId)
    IN [k \in DOMAIN later |-> [id |-> later[Len(later) + 1 - k].id,
                                message |-> later[Len(later) + 1 - k].message]]

\* The calls sink(eventId, message) of a replay after position n of the log:
\* one per event of the stream at a greater position, in ascending order.
RECURSIVE SendAfter(_, _, _)
SendAfter(log, n, streamId) ==
    IF n >= Len(log) THEN <<>>
    ELSE LET e == log[n + 1] IN
         IF e.streamId = streamId
         THEN <<[id |-> e.id, message |-> e.message]>> \o SendAfter(log, n + 1, streamId)
         ELSE SendAfter(log, n + 1, streamId)

\* Mutant: the stream id returned is that of the newest event of the log.
ReplayResultNewest(log, n) == log[Len(log)].streamId

\* The stream id a replay after position n returns.
ReplayResult(log, n) == log[n].streamId

\* replayEventsAfter(lastEventId, { send }): an id that is not found gives the
\* empty result and no call of send; otherwise the later events of the
\* stream of that event are sent and the stream id is returned.
ReplayEventsAfter(lastEventId) ==
    /\ LET found == Lookup(events, lastEventId) IN
       IF found = {}
       THEN last' = [op |-> "replayEventsAfter", lastEventId |-> lastEventId,
                     result |-> "", sent |-> <<>>]
       ELSE LET n == CHOOSE k \in found : TRUE
                streamId == ReplayResult(events, n)
            IN last' = [op |-> "replayEventsAfter", lastEventId |-> lastEventId,
                        result |-> streamId, sent |-> SendAfter(events, n, streamId)]
    /\ UNCHANGED events
    /\ UNCHANGED <<vars, serverVars, converterVars>>

\* The ids the appends so far returned.
Returned == {events[n].id : n \in DOMAIN events}

EventLogNext ==
    \/ \E streamId \in Streams, message \in Messages, suffix \in Suffixes :
          StoreEvent(streamId, message, suffix)
    \/ \E lastEventId \in Returned \cup ForeignIds \cup OtherLogIds :
          ReplayEventsAfter(lastEventId)

EventLogSpec == Init /\ [][EventLogNext]_<<vars, logVars, serverVars>>

\* ------------------------------------------------------------------ spec

\* closeAllTransports is suspended or not running: between the resolution of
\* one close() and the call of the next, and between its entry and the first
\* call, it runs on without giving way to another callback.
Yielded == sweep.pc # "loop"

\* The outcome of the last step has been taken note of.
Observed ==
    /\ out # Quiet
    /\ out' = Quiet
    /\ UNCHANGED <<transports, nCreated, sessionId, eventStore, nStores, req, sweep, exited>>

Next ==
    \/ \E h \in Headers, m \in Methods, i \in BOOLEAN :
          Yielded /\ HandleMcpRequest(h, m, i) /\ UNCHANGED <<logVars, serverVars, converterVars>>
    \/ \E q \in InFlight : Yielded /\ CreateServerResolves(q) /\ UNCHANGED <<logVars, serverVars, converterVars>>
    \/ \E q \in InFlight : Yielded /\ CreateServerRejects(q) /\ UNCHANGED <<logVars, serverVars, converterVars>>
    \/ \E q \in InFlight : Yielded /\ ConnectResolves(q) /\ UNCHANGED <<logVars, serverVars, converterVars>>
    \/ \E q \in InFlight : Yielded /\ ConnectRejects(q) /\ UNCHANGED <<logVars, serverVars, converterVars>>
    \/ \E q \in InFlight : Yielded /\ HandshakeSucceeds(q) /\ UNCHANGED <<logVars, serverVars, converterVars>>
    \/ \E q \in InFlight : Yielded /\ HandleRequestResolves(q) /\ UNCHANGED <<logVars, serverVars, converterVars>>
    \/ \E q \in InFlight, sent \in BOOLEAN :
          Yielded /\ HandleRequestRejects(q, sent) /\ UNCHANGED <<logVars, serverVars, converterVars>>
    \/ \E t \in Transports : Yielded /\ CloseHook(t) /\ UNCHANGED <<logVars, serverVars, converterVars>>
    \/ CloseAllStart /\ UNCHANGED <<logVars, serverVars, converterVars>>
    \/ SweepNext /\ UNCHANGED <<logVars, serverVars, converterVars>>
    \/ SweepCloseResolves /\ UNCHANGED <<logVars, serverVars, converterVars>>
    \/ SweepCloseRejects /\ UNCHANGED <<logVars, serverVars, converterVars>>
    \/ SweepFinish /\ UNCHANGED <<logVars, serverVars, converterVars>>
    \/ Observed /\ UNCHANGED <<logVars, serverVars, converterVars>>

Spec == Init /\ [][Next]_vars

\* ----------------------------------------------------------------- server

MissingUrlBody ==
    [error |-> "Missing required URL parameter",
     usage |-> "GET /mcp?url=https://staticmcp.com/mcp"]

InvalidUrlBody(urlParam) == [error |-> "Invalid URL parameter", provided |-> urlParam]

\* The process starts: main() has parsed its argument and not yet run on.
ServerInit ==
    /\ jsonSchema = [properties |-> <<>>, required |-> <<>>]
    /\ converted = NotConverted
    /\ config \in {ParseConfig(staticSourcePath) : staticSourcePath \in Argv2}
    /\ boot = [pc |-> "main", probe |-> "none"]
    /\ route = NoRoute
    /\ Constructed

\* main() up to the first suspension.  Hosted mode: startServer awaits
\* nothing and main() calls app.listen.  CLI mode: validateSourcePath awaits
\* fs.access or pathExists; joinPath throws for a URL that does not parse,
\* which the catch block turns into process.exit(1).
StartServer ==
    /\ boot.pc = "main"
    /\ boot' = IF config.isHostedMode
                  THEN [pc |-> "listening", probe |-> "none"]
               ELSE IF config.isRemoteUrl /\ ~UrlParses(config.staticSourcePath)
                  THEN [pc |-> "exit1", probe |-> "unjoinable"]
               ELSE [pc |-> "validating", probe |-> "none"]
    /\ UNCHANGED <<config, route>>
    /\ UNCHANGED vars

\* The check validateSourcePath awaits settles.  Folder: fs.access resolves
\* ("ok") or rejects ("missing", "unreachable"), and a rejection is caught
\* and ends the process with status 1.  URL: pathExists answers response.ok
\* ("ok", "missing") and false when fetch throws ("unreachable"); false is
\* logged as a warning and validateSourcePath returns.
ValidateSourcePath(probe) ==
    /\ boot.pc = "validating"
    /\ boot' = [pc |-> IF config.isRemoteUrl \/ probe = "ok" THEN "discovering" ELSE "exit1",
                probe |-> probe]
    /\ UNCHANGED <<config, route>>
    /\ UNCHANGED vars

\* loadManifest, discoverTools and discoverResources catch what they throw:
\* startServer returns, main() calls app.listen and installs the SIGINT
\* handler.
Listen ==
    /\ boot.pc = "discovering"
    /\ boot' = [boot EXCEPT !.pc = "listening"]
    /\ UNCHANGED <<config, route>>
    /\ UNCHANGED vars

\* The listener is up and the last run of the route has been taken note of.
Serving == boot.pc = "listening" /\ route = NoRoute

\* Mutant: the hosted-mode route does not look at the url parameter.
McpRouteUngated(urlParam, h, m, i) ==
    /\ Serving
    /\ HandleMcpRequest(h, m, i)
    /\ route' = IF config.isHostedMode
                   THEN [pc |-> "forwarded", urlParam |-> urlParam.text,
                         sourcePath |-> urlParam.text, isRemoteUrl |-> TRUE]
                ELSE [pc |-> "forwarded", urlParam |-> Undefined,
                      sourcePath |-> SourcePath(config),
                      isRemoteUrl |-> config.isRemoteUrl]
    /\ UNCHANGED <<config, boot>>

\* app.all('/mcp'): in hosted mode a request without url parameter, or with
\* one new URL() throws on, is answered 400 by the route; every other
\* request is handed to handleMcpRequest.
McpRoute(urlParam, h, m, i) ==
    /\ Serving
    /\ Running
    /\ IF config.isHostedMode /\ ~Truthy(urlParam.text)
          THEN /\ route' = [pc |-> "answered", urlParam |-> urlParam.text,
                            status |-> 400, body |-> MissingUrlBody]
               /\ UNCHANGED vars
       ELSE IF config.isHostedMode /\ ~UrlParses(urlParam)
          THEN /\ route' = [pc |-> "answered", urlParam |-> urlParam.text,
                            status |-> 400, body |-> InvalidUrlBody(urlParam.text)]
               /\ UNCHANGED vars
       ELSE /\ HandleMcpRequest(h, m, i)
            /\ route' = IF config.isHostedMode
                           THEN [pc |-> "forwarded", urlParam |-> urlParam.text,
                                 sourcePath |-> urlParam.text, isRemoteUrl |-> TRUE]
                        ELSE [pc |-> "forwarded", urlParam |-> Undefined,
                              sourcePath |-> SourcePath(config),
                              isRemoteUrl |-> config.isRemoteUrl]
    /\ UNCHANGED <<config, boot>>

\* The last run of the route has been taken note of.
RouteObserved ==
    /\ route # NoRoute
    /\ route' = NoRoute
    /\ UNCHANGED <<config, boot>>
    /\ UNCHANGED vars

ServerNext ==
    \/ StartServer /\ UNCHANGED <<logVars, converterVars>>
    \/ \E probe \in {"ok", "missing", "unreachable"} : ValidateSourcePath(probe) /\ UNCHANGED <<logVars, converterVars>>
    \/ Listen /\ UNCHANGED <<logVars, converterVars>>
    \/ \E urlParam \in UrlParams, h \in Headers, m \in Methods, i \in BOOLEAN :
          Yielded /\ McpRoute(urlParam, h, m, i) /\ UNCHANGED <<logVars, converterVars>>
    \/ RouteObserved /\ UNCHANGED <<logVars, converterVars>>
    \/ \E q \in InFlight : Serving /\ Yielded /\ CreateServerResolves(q) /\ UNCHANGED <<logVars, serverVars, converterVars>>
    \/ \E q \in InFlight : Serving /\ Yielded /\ CreateServerRejects(q) /\ UNCHANGED <<logVars, serverVars, converterVars>>
    \/ \E q \in InFlight : Serving /\ Yielded /\ ConnectResolves(q) /\ UNCHANGED <<logVars, serverVars, converterVars>>
    \/ \E q \in InFlight : Serving /\ Yielded /\ ConnectRejects(q) /\ UNCHANGED <<logVars, serverVars, converterVars>>
    \/ \E q \in InFlight : Serving /\ Yielded /\ HandshakeSucceeds(q) /\ UNCHANGED <<logVars, serverVars, converterVars>>
    \/ \E q \in InFlight : Serving /\ Yielded /\ HandleRequestResolves(q) /\ UNCHANGED <<logVars, serverVars, converterVars>>
    \/ \E q \in InFlight, sent \in BOOLEAN :
          Serving /\ Yielded /\ HandleRequestRejects(q, sent) /\ UNCHANGED <<logVars, serverVars, converterVars>>
    \/ \E t \in Transports : Serving /\ Yielded /\ CloseHook(t) /\ UNCHANGED <<logVars, serverVars, converterVars>>
    \/ Serving /\ CloseAllStart /\ UNCHANGED <<logVars, serverVars, converterVars>>
    \/ Serving /\ SweepNext /\ UNCHANGED <<logVars, serverVars, converterVars>>
    \/ Serving /\ SweepCloseResolves /\ UNCHANGED <<logVars, serverVars, converterVars>>
    \/ Serving /\ SweepCloseRejects /\ UNCHANGED <<logVars, serverVars, converterVars>>
    \/ Serving /\ SweepFinish /\ UNCHANGED <<logVars, serverVars, converterVars>>
    \/ Serving /\ Observed /\ UNCHANGED <<logVars, serverVars, converterVars>>

ServerSpec == ServerInit /\ [][ServerNext]_<<vars, serverVars>>

\* ------------------------------------------------------------- converter

\* SchemaConverter.jsonSchemaToMcpInputSchema runs on one schema.
ConverterInit ==
    /\ jsonSchema \in JsonSchemas
    /\ converted = NotConverted
    /\ config = ParseConfig(RelativeFolder)
    /\ boot = Listening
    /\ route = NoRoute
    /\ Constructed

Convert ==
    /\ converted = NotConverted
    /\ converted' = JsonSchemaToMcpInputSchema(jsonSchema)
    /\ UNCHANGED jsonSchema
    /\ UNCHANGED <<vars, logVars, serverVars>>

ConverterNext == Convert

ConverterSpec == ConverterInit /\ [][ConverterNext]_<<vars, logVars, serverVars, converterVars>>

\* ---------------------------------------------------------------- claims

\* The one response handleMcpRequest writes when it rejects a request.
BadRequest == <<[status |-> 400, body |-> BadRequestBody]>>

\* The one response handleMcpRequest writes when it caught an exception.
InternalError == <<[status |-> 500, body |-> InternalErrorBody]>>

\* The last step changed neither the session table nor the number of
\* transports and event stores constructed.
NothingCreatedOrRegistered ==
    /\ transports' = transports
    /\ nCreated' = nCreated
    /\ nStores' = nStores
    /\ sessionId' = sessionId
    /\ eventStore' = eventStore

\* The last step returned an invocation that answered 400 with the literal
\* body and called handleRequest on no transport; nothing went in flight.
Rejected400(h) ==
    /\ req' = req
    /\ out'.pc = "done"
    /\ out'.hdr = h
    /\ out'.writes = BadRequest
    /\ ~out'.handled
    /\ out'.transport = {}

\* The transport whose handshake drew the session id s.
MintedBy(s) == CHOOSE t \in Transports : sessionId[t] = s

\* C1  Known-session routing: a request whose mcp-session-id header is a key
\* of the session table is forwarded (handleRequest called at once) to that
\* entry's transport and to no other; the step constructs no transport and no
\* event store and leaves the session table as it was.
C1_KnownSessionRouting ==
    [][\A h \in Keys(transports), m \in Methods, i \in BOOLEAN :
         HandleMcpRequest(h, m, i) =>
            /\ \E q \in BagToSet(req') :
                 /\ q.pc = "handling" /\ q.handled /\ q.hdr = h
                 /\ q.transport = {OwnValue(transports, h)}
                 /\ req' = req (+) SetToBag({q})
            /\ out' = Quiet
            /\ NothingCreatedOrRegistered]_vars

\* A request bearing a registered session id is in flight on the transport
\* the table holds for that id.
C1_Witness ==
    \E q \in InFlight :
        /\ q.branch = "known" /\ q.pc = "handling"
        /\ HasOwn(transports, q.hdr)
        /\ q.transport = {OwnValue(transports, q.hdr)}
        /\ Len(transports) > 1

\* Every entry of the session table is keyed by the session id its transport
\* drew in a successful handshake.
RegisteredAfterHandshake ==
    \A n \in DOMAIN transports :
        /\ transports[n].val \in 1..nCreated
        /\ sessionId[transports[n].val] # Undefined
        /\ sessionId[transports[n].val] = transports[n].key

\* C2  Registration only on handshake success: every key of the session table
\* belongs to a transport whose handshake has succeeded, a key enters the
\* table only in the step in which a handshake succeeds, and a transport whose
\* handshake has not succeeded is not in the table.
C2_RegistrationOnlyOnHandshake ==
    /\ []RegisteredAfterHandshake
    /\ [][Keys(transports') \subseteq Keys(transports)
          \/ \E q \in InFlight : HandshakeSucceeds(q)]_vars

\* One session is registered while the initialization request of another
\* transport has returned without a handshake: that transport is not in the
\* table.
C2_Witness ==
    /\ transports # <<>>
    /\ \E t \in 1..nCreated :
         /\ sessionId[t] = Undefined
         /\ \A q \in InFlight : t \notin q.transport
         /\ \A n \in DOMAIN transports : transports[n].val # t

\* C3  Rejection: a request with no session id that is not a POST carrying an
\* initialization message (an initialization message sent with GET or DELETE
\* included) is answered 400 with the literal body; handleRequest is called on
\* no transport, nothing is constructed and the session table is unchanged.
C3_Rejection ==
    [][\A h \in {x \in Headers : ~Truthy(x)}, m \in Methods, i \in BOOLEAN :
         (~(m = "POST" /\ i) /\ HandleMcpRequest(h, m, i)) =>
            Rejected400(h) /\ NothingCreatedOrRegistered]_vars

\* A request without a session id has just been answered 400.
C3_Witness ==
    /\ out.pc = "done"
    /\ out.hdr = Undefined
    /\ out.branch = "reject"
    /\ out.writes = BadRequest

\* C4  Unknown session id (as claimed): a request whose mcp-session-id header
\* is a non-empty value that is no key of the session table is answered 400
\* with the literal body, whatever its method and body, and nothing is
\* constructed or registered.
C4_UnknownSessionRejected ==
    [][\A h \in {x \in Headers : Truthy(x)} \ Keys(transports),
          m \in Methods, i \in BOOLEAN :
         HandleMcpRequest(h, m, i) =>
            Rejected400(h) /\ NothingCreatedOrRegistered]_vars

\* C5  Session reuse after initialization: a session id is a key of the table
\* only once a handshake has drawn it; from then on, while it is a key, every
\* request bearing it is forwarded to the transport whose handshake drew it;
\* a request bearing an id that no handshake has drawn yet is answered 400.
C5_SessionReuse ==
    /\ [](Keys(transports) \subseteq Minted)
    /\ [][/\ \A s \in Keys(transports), m \in Methods, i \in BOOLEAN :
               HandleMcpRequest(s, m, i) =>
                  \E q \in BagToSet(req') :
                     /\ q.pc = "handling" /\ q.handled /\ q.hdr = s
                     /\ q.transport = {MintedBy(s)}
                     /\ req' = req (+) SetToBag({q})
          /\ \A s \in Uuids \ Minted, m \in Methods, i \in BOOLEAN :
               HandleMcpRequest(s, m, i) =>
                  Rejected400(s) /\ NothingCreatedOrRegistered]_vars

\* A request bearing the id of the second session has been handled by the
\* transport whose handshake drew that id, after a request bearing the same id
\* was possible only as a rejection.
C5_Witness ==
    /\ out.pc = "done"
    /\ out.branch = "known"
    /\ out.threw = "none"
    /\ out.hdr = UuidPool[2]
    /\ sessionId[TransportOf(out)] = out.hdr

\* C6  Fatal-error response: when handleRequest of an established session's
\* transport raises and the response has not begun, handleMcpRequest answers
\* 500 with the literal internal-error body.
C6_FatalErrorResponse ==
    [][\A q \in InFlight :
         (HandleRequestRejects(q, FALSE) /\ sessionId[TransportOf(q)] # Undefined) =>
            /\ out'.pc = "done"
            /\ out'.writes = InternalError]_vars

\* A request routed to a known session has been answered 500 after its
\* transport raised with no response begun.
C6_Witness ==
    /\ out.pc = "done"
    /\ out.branch = "known"
    /\ out.threw = "handleRequest"
    /\ ~out.sentAtCatch
    /\ out.writes = InternalError

\* C7  No double write: when handleRequest raises after the response headers
\* were sent, handleMcpRequest writes no status and no body.
C7_NoDoubleWrite ==
    [][\A q \in InFlight :
         HandleRequestRejects(q, TRUE) => (out'.pc = "done" /\ out'.writes = <<>>)]_vars

\* A transport raised after it had begun the response, and handleMcpRequest
\* wrote nothing.
C7_Witness ==
    /\ out.pc = "done"
    /\ out.threw = "handleRequest"
    /\ out.sentAtCatch
    /\ out.writes = <<>>

\* C8  Failure containment: whatever raises (the transport, createServer,
\* connect, a table value that is no transport), the promise of
\* handleMcpRequest resolves; it never rejects.
C8_FailureContainment ==
    /\ out.pc = "done" => out.settled = "resolved"
    /\ \A q \in InFlight : q.settled = "pending"

\* An invocation whose createServer raised has returned normally.
C8_Witness ==
    /\ out.pc = "done"
    /\ out.threw = "createServer"
    /\ out.settled = "resolved"

\* The table without the entry of key k, the other entries as they were.
WithoutKey(tbl, k) == SelectSeq(tbl, LAMBDA e : e.key # k)

\* C9  Teardown is idempotent: a close hook removes the entry keyed by its
\* transport's session id and nothing else; an entry that is gone does not
\* come back, so that each further run of the hook leaves the table as the
\* first run left it (and the hook, which is always able to run, cannot fail).
C9_TeardownIdempotent ==
    [][/\ \A t \in Transports :
            CloseHook(t) =>
               /\ transports' = WithoutKey(transports, sessionId[t])
               /\ (~HasOwn(transports, sessionId[t]) => transports' = transports)
               /\ OnClose(transports', sessionId[t]) = transports'
       /\ \A s \in Minted : ~HasOwn(transports, s) => ~HasOwn(transports', s)]_vars

\* No sweep has begun, so only a close hook can have removed an entry: the
\* hook of a transport whose handshake succeeded has just run with its entry
\* already gone, while another session is registered.
C9_Witness ==
    /\ out.pc = "hook"
    /\ ~out.had
    /\ sessionId[out.t] # Undefined
    /\ sweep.pc = "idle"
    /\ transports # <<>>

\* C10  Stale session id: a request bearing the id of a session that was torn
\* down (drawn by a handshake, no longer a key of the table) is answered 400;
\* handleRequest is called on no transport, nothing is constructed and the
\* session is not registered again.
C10_StaleSessionRejected ==
    [][\A s \in Minted \ Keys(transports), m \in Methods, i \in BOOLEAN :
         HandleMcpRequest(s, m, i) =>
            Rejected400(s) /\ NothingCreatedOrRegistered]_vars

\* A request bearing the id of a session the sweep has deleted has just been
\* answered 400.
C10_Witness ==
    /\ out.pc = "done"
    /\ out.branch = "reject"
    /\ out.hdr \in Minted
    /\ ~HasOwn(transports, out.hdr)
    /\ sweep.pc # "idle"

\* C11  Destroyed on a fatal transport error (as claimed): once a request
\* forwarded to the transport of an established session has raised, that
\* session is no longer a key of the session table.
C11_SessionDestroyedOnFatalError ==
    (/\ out.pc = "done"
     /\ out.threw = "handleRequest"
     /\ sessionId[TransportOf(out)] # Undefined)
        => ~HasOwn(transports, sessionId[TransportOf(out)])

\* The keys the table had when closeAllTransports began, and those among
\* them the loop has gone past.
AtStart == {sweep.start[n] : n \in DOMAIN sweep.start}

Visited == AtStart \ {sweep.keys[n] : n \in DOMAIN sweep.keys}

\* C12  Bulk teardown tolerates failures (as claimed): when closeAllTransports
\* has returned, close was invoked on every session that was in the table
\* when it started.
C12_ClosesEverySessionAtStart ==
    sweep.pc = "returned" => AtStart \subseteq sweep.closed

\* C12  Bulk teardown tolerates failures (amended): closeAllTransports never
\* ends in an exception; it goes past every key the table had when it started
\* and invokes close on each of them that is still in the table when the loop
\* reaches it (a key it did not close had left the table and stays out); a
\* close that failed stops neither.
C12_BulkTeardownToleratesFailures ==
    /\ sweep.pc \in {"idle", "loop", "awaitClose", "returned"}
    /\ sweep.closed \subseteq Visited
    /\ \A k \in Visited : k \in sweep.closed \/ ~HasOwn(transports, k)
    /\ sweep.pc = "awaitClose" => sweep.cur \in sweep.closed
    /\ sweep.pc = "returned" => Visited = AtStart

\* closeAllTransports has returned; the close of the first session failed (it
\* was invoked and the entry is still there) and close was invoked on the
\* second all the same.
C12_Witness ==
    /\ sweep.pc = "returned"
    /\ Len(sweep.start) = 2
    /\ sweep.closed = AtStart
    /\ HasOwn(transports, sweep.start[1])

\* C13  Bulk teardown empties the table (as claimed): when closeAllTransports
\* has completed the session table is empty, whether the closes succeeded or
\* failed.
C13_TableEmptyAfterSweep ==
    sweep.pc = "returned" => transports = <<>>

\* C14  Shutdown ordering (as claimed): the process has exited only once
\* closeAllTransports has returned and close has been invoked on every
\* session that was in the table at the shutdown signal.
C14_ExitAfterEverySessionClosed ==
    exited => (sweep.pc = "returned" /\ AtStart \subseteq sweep.closed)

\* C14  Shutdown ordering (amended): the process has exited only once
\* closeAllTransports has returned, having gone past every session that was
\* in the table at the shutdown signal and invoked close on each one still in
\* the table when reached; the others had left the table.  No step but the
\* return of closeAllTransports exits, and a failed close leaves the loop
\* running towards it.
C14_ShutdownOrdering ==
    /\ [](exited =>
            /\ sweep.pc = "returned"
            /\ sweep.keys = <<>>
            /\ \A k \in AtStart : k \in sweep.closed \/ ~HasOwn(transports, k))
    /\ [][/\ exited' => (exited \/ SweepFinish)
          /\ SweepCloseRejects => (~exited' /\ sweep'.pc = "loop"
                                    /\ sweep'.keys = sweep.keys)]_vars

\* The process has exited although a close failed: close was invoked on a
\* session of the table and its entry is still there.
C14_Witness ==
    /\ exited
    /\ \E k \in sweep.closed : HasOwn(transports, k)

\* C15  One event log per session: an initialization request that passes
\* routing constructs one event store no transport had before and wires it to
\* the one transport it constructs; no two transports, hence no two sessions
\* of the table, share an event store; the event store of a transport is
\* never replaced.
C15_OneEventLogPerSession ==
    /\ [](/\ \A t \in 1..nCreated : eventStore[t] \in 1..nStores
          /\ \A t1, t2 \in 1..nCreated : t1 # t2 => eventStore[t1] # eventStore[t2]
          /\ \A n1, n2 \in DOMAIN transports :
                n1 # n2 => eventStore[transports[n1].val] # eventStore[transports[n2].val])
    /\ [][/\ \A t \in 1..nCreated : eventStore'[t] = eventStore[t]
          /\ \A h \in {x \in Headers : ~Truthy(x)} :
                HandleMcpRequest(h, "POST", TRUE) =>
                   /\ nStores' = nStores + 1
                   /\ nCreated' = nCreated + 1
                   /\ eventStore'[nCreated'] = nStores'
                   /\ \A t \in 1..nCreated : eventStore[t] # nStores'
                   /\ \E q \in BagToSet(req') : q.transport = {nCreated'} /\ ~q.handled]_vars

\* Two sessions are in the table, each with an event store of its own.
C15_Witness ==
    /\ Len(transports) = 2
    /\ eventStore[transports[1].val] # eventStore[transports[2].val]
    /\ eventStore[transports[1].val] \in 1..nStores
    /\ eventStore[transports[2].val] \in 1..nStores

\* The last call was a replay after an id that an append had returned.
Replayed == last.op = "replayEventsAfter" /\ last.lastEventId \in Returned

\* The position of the event whose append returned the id of the last replay,
\* and the later positions of the log that hold events of its stream.
Cursor == CHOOSE n \in DOMAIN events : events[n].id = last.lastEventId

LaterOfStream == {j \in DOMAIN events : j > Cursor /\ events[j].streamId = events[Cursor].streamId}

\* C16  Event id uniqueness: the ids returned by the appends to one event log
\* are pairwise distinct, whatever the streams and the messages (the same
\* stream and the same message included).
C16_EventIdUniqueness ==
    /\ \A n1, n2 \in DOMAIN events : n1 # n2 => events[n1].id # events[n2].id
    /\ last.op = "storeEvent" =>
          /\ events[Len(events)].id = last.eventId
          /\ \A n \in 1..(Len(events) - 1) : events[n].id # last.eventId

\* The same message has been appended three times to the same stream, the
\* suffix of the ids being the same, and three ids were returned.
C16_Witness ==
    /\ Len(events) = 3
    /\ last.op = "storeEvent"
    /\ \A n \in DOMAIN events :
          /\ events[n].streamId = "stream-1" /\ events[n].message = "M1"
          /\ events[n].id = GenerateEventId("stream-1", n, "k3x9q2ab")
    /\ Cardinality(Returned) = 3

\* C17  Replay delivers exactly the later events, in order: a replay after an
\* id returned by an earlier append calls the sink once for each event of
\* that stream appended later and for no other event, with that event's own
\* id and message, in the order of the appends.
C17_ReplayLaterEventsInOrder ==
    Replayed =>
       /\ Len(last.sent) = Cardinality(LaterOfStream)
       /\ \E at \in [DOMAIN last.sent -> LaterOfStream] :
             /\ \A k1, k2 \in DOMAIN last.sent : k1 < k2 => at[k1] < at[k2]
             /\ \A k \in DOMAIN last.sent :
                   last.sent[k] = [id |-> events[at[k]].id,
                                   message |-> events[at[k]].message]

\* M1, M2, M3 were appended to one stream and the replay after the id of the
\* first gave (E2, M2) then (E3, M3).
C17_Witness ==
    /\ Replayed
    /\ Len(events) = 3
    /\ \A n \in DOMAIN events : events[n].streamId = "stream-1"
    /\ <<events[1].message, events[2].message, events[3].message>> = <<"M1", "M2", "M3">>
    /\ last.lastEventId = events[1].id
    /\ last.sent = <<[id |-> events[2].id, message |-> "M2"],
                     [id |-> events[3].id, message |-> "M3"]>>

\* C18  Stream isolation on replay: whatever the interleaving of the appends,
\* a replay after an id of stream A passes to the sink no event that was
\* appended to another stream.
C18_StreamIsolation ==
    Replayed =>
       \A k \in DOMAIN last.sent :
          \A n \in DOMAIN events :
             events[n].id = last.sent[k].id => events[n].streamId = events[Cursor].streamId

\* M1 went to one stream, M2 to another, M3 to the first: the replay after
\* the id of M1 passed M3 alone to the sink.
C18_Witness ==
    /\ Replayed
    /\ Len(events) = 3
    /\ events[1].streamId = "stream-1"
    /\ events[2].streamId = "stream-1_2"
    /\ events[3].streamId = "stream-1"
    /\ last.lastEventId = events[1].id
    /\ last.sent = <<[id |-> events[3].id, message |-> events[3].message]>>

\* C19  Strict-after: a replay after an id returned by an append never passes
\* the event of that id to the sink; after the latest event of its stream the
\* sink is not called at all.
C19_StrictAfter ==
    Replayed =>
       /\ \A k \in DOMAIN last.sent : last.sent[k].id # last.lastEventId
       /\ LaterOfStream = {} => last.sent = <<>>

\* The replay after the latest event of a stream, events of another stream
\* having been appended since, called the sink zero times and returned the
\* stream.
C19_Witness ==
    /\ Replayed
    /\ Cursor < Len(events)
    /\ LaterOfStream = {}
    /\ last.sent = <<>>
    /\ last.result = events[Cursor].streamId

\* C20  Stream tagging: a replay after an id returned by append(streamId,
\* message) returns that very streamId, whatever the stream id is.
C20_StreamTagging ==
    /\ last.op = "storeEvent" =>
          events[Len(events)] = [id |-> last.eventId, streamId |-> last.streamId,
                                 message |-> last.message]
    /\ Replayed => last.result = events[Cursor].streamId

\* The replay after an id of the stream whose id holds the separator returned
\* that stream id, events of the stream it begins like being in the log.
C20_Witness ==
    /\ Replayed
    /\ events[Cursor].streamId = "stream-1_2"
    /\ last.result = "stream-1_2"
    /\ \E n \in DOMAIN events : n > Cursor /\ events[n].streamId = "stream-1"

\* C21  Unknown-id no-op: a replay after an id this log has not returned (the
\* empty id, a malformed id, a well-formed id never issued, an id issued by
\* another event store) returns the empty stream id and calls the sink zero
\* times; it completes like any other replay.
C21_UnknownIdNoOp ==
    (last.op = "replayEventsAfter" /\ last.lastEventId \notin Returned) =>
       /\ last.result = ""
       /\ last.sent = <<>>

\* The log holds events of the stream, and the replay after the id another
\* event store returned for that stream gave the empty result.
C21_Witness ==
    /\ last.op = "replayEventsAfter"
    /\ last.lastEventId \in OtherLogIds \ Returned
    /\ Len(events) >= 2
    /\ \A n \in DOMAIN events : events[n].streamId = "stream-1"
    /\ last.result = ""
    /\ last.sent = <<>>

\* C22  Append-only: a call leaves every event of the log where it was, with
\* its id, stream and message; an append adds one event at the end whose id
\* was never returned before; a replay leaves the log as it was.
C22_AppendOnly ==
    [][/\ Len(events') >= Len(events)
       /\ \A n \in DOMAIN events : events'[n] = events[n]
       /\ Len(events') <= Len(events) + 1
       /\ Len(events') = Len(events) + 1 => events'[Len(events')].id \notin Returned
       /\ last'.op = "replayEventsAfter" => events' = events]_<<vars, logVars>>

\* A replay that passed events to the sink has left a full log.
C22_Witness ==
    /\ last.op = "replayEventsAfter"
    /\ last.sent # <<>>
    /\ Len(events) = MaxEvents

\* The url parameter whose text the route recorded.
UrlOf(text) == CHOOSE urlParam \in UrlParams : urlParam.text = text

\* The route's gate lets the url parameter through.
PassesGate(text) == Truthy(text) /\ UrlParses(UrlOf(text))

\* C23 -- Hosted-mode gate: in hosted mode a request to /mcp without url
\* parameter, or with one that is not a parseable URL, is answered 400 and
\* nothing of the TransportManager changes (no session created or touched, no
\* invocation entered or returned); a request with a valid url is handed to
\* handleMcpRequest with that url as source and isRemoteUrl = true.
C23_HostedModeGate ==
    [][(config.isHostedMode /\ route = NoRoute /\ route' # NoRoute) =>
          IF PassesGate(route'.urlParam)
             THEN /\ route'.pc = "forwarded"
                  /\ route'.sourcePath = route'.urlParam
                  /\ route'.isRemoteUrl = TRUE
          ELSE /\ route'.pc = "answered"
               /\ route'.status = 400
               /\ route'.body \in {MissingUrlBody, InvalidUrlBody(route'.urlParam)}
               /\ UNCHANGED vars]_<<vars, serverVars>>

\* A hosted bridge with a live session answers 400 to url=invalid-url.
C23_Witness ==
    /\ config.isHostedMode
    /\ route.pc = "answered"
    /\ route.body = InvalidUrlBody("invalid-url")
    /\ Keys(transports) # {}

\* C24 -- Validation before serving: in CLI mode the listener is started
\* only after the source validation has completed; when the source is
\* unreachable the process has ended with status 1 and the listener was never
\* started; in hosted mode no validation happens and the process does not
\* end with status 1.
C24_ValidationBeforeServing ==
    /\ (~config.isHostedMode /\ boot.pc = "listening") => boot.probe # "none"
    /\ boot.probe \in {"unreachable", "unjoinable"} => boot.pc = "exit1"
    /\ boot.pc # "listening" =>
          /\ nCreated = 0
          /\ req = EmptyBag
          /\ route = NoRoute
          /\ sweep = IdleSweep
    /\ config.isHostedMode => boot.probe = "none" /\ boot.pc # "exit1"

\* The property names of the schema whose value is an object with a type.
TypedProps ==
    {e.key : e \in {OrElse(jsonSchema.properties, <<>>)[i] :
                      i \in DOMAIN OrElse(jsonSchema.properties, <<>>)} \cap
                   [key : PropNames, val : {p \in PropSchemas : p.kind = "object" /\ Truthy(p.type)}]}

PropSchemaOf(k) ==
    LET properties == OrElse(jsonSchema.properties, <<>>)
    IN properties[CHOOSE i \in DOMAIN properties : properties[i].key = k].val

\* C25 -- Schema conversion: for every schema jsonSchemaToMcpInputSchema
\* returns a map whose keys are exactly the property names whose schema is an
\* object with a type; the base validator of an entry is string, number,
\* integer number or boolean by that type and any for every other type; an
\* entry is non-optional exactly when its name is listed in required; without
\* properties the map is empty.
C25_SchemaConversion ==
    converted # NotConverted =>
       /\ converted.status = "returned"
       /\ Keys(converted.value) = TypedProps
       /\ \A k \in Keys(converted.value) :
             LET type == PropSchemaOf(k).type
                 validator == OwnValue(converted.value, k)
             IN /\ validator.base.typeName =
                      (CASE type = "string" -> "ZodString"
                         [] type \in {"number", "integer"} -> "ZodNumber"
                         [] type = "boolean" -> "ZodBoolean"
                         [] OTHER -> "ZodAny")
                /\ validator.base.int = (type = "integer")
                /\ validator.optional = (k \notin OrElse(jsonSchema.required, {}))
       /\ OrElse(jsonSchema.properties, <<>>) = <<>> => converted.value = <<>>

\* The transports the table holds.
Registered == {OwnValue(transports, k) : k \in Keys(transports)}

\* The invocation the last step returned is an initialization that failed
\* before its handshake succeeded.
FailedInitialization(o) ==
    /\ o.pc = "done"
    /\ o.branch = "init"
    /\ o.threw # "none"
    /\ sessionId[TransportOf(o)] = Undefined

\* C26 -- Failed initialization leaves no trace: a transport whose handshake
\* has not succeeded is not in the session table, and no step of a request
\* changes the table but the registration on handshake success (the other
\* changes are those of a close hook and of closeAllTransports), so that an
\* initialization failing in createServer, in connect or in the handshake
\* leaves the table as it was; if no response had been started the caller
\* gets the one 500 body.
C26_FailedInitializationLeavesNoTrace ==
    /\ [](\A t \in Transports : sessionId[t] = Undefined => t \notin Registered)
    /\ []((FailedInitialization(out) /\ ~out.sentAtCatch) => out.writes = InternalError)
    /\ [][/\ FailedInitialization(out') => transports' = transports
          /\ transports' # transports =>
                (sessionId' # sessionId \/ out'.pc = "hook" \/ sweep.pc = "awaitClose")]_vars

\* The handshake of an initialization failed before any response, while
\* another session is live.
C26_Witness ==
    /\ FailedInitialization(out)
    /\ out.threw = "handleRequest"
    /\ ~out.sentAtCatch
    /\ Len(transports) = 1

\* C27 -- Concurrent initializations do not interfere: every entry of the
\* table holds the transport whose own session id is the key, no two
\* transports have one session id, an invocation has at most one transport,
\* and a registration appends one entry under an id that was not a key and
\* changes no other entry.
C27_ConcurrentInitializations ==
    /\ [](\A k \in Keys(transports) : sessionId[OwnValue(transports, k)] = k)
    /\ [](\A t, u \in Transports :
             (t # u /\ sessionId[t] # Undefined) => sessionId[t] # sessionId[u])
    /\ [](\A q \in InFlight : Cardinality(q.transport) <= 1)
    /\ [][sessionId' # sessionId =>
             \E t \in Transports :
                /\ sessionId[t] = Undefined
                /\ sessionId'[t] \notin Keys(transports)
                /\ transports' = Append(transports, [key |-> sessionId'[t], val |-> t])
                /\ \A u \in Transports \ {t} : sessionId'[u] = sessionId[u]]_vars

\* Two initializations are in flight and both have registered their session.
C27_Witness ==
    \E q, p \in InFlight :
       /\ q # p
       /\ q.branch = "init" /\ p.branch = "init"
       /\ TransportOf(q) \in Registered
       /\ TransportOf(p) \in Registered
       /\ sessionId[TransportOf(q)] # sessionId[TransportOf(p)]

\* C28 -- Close hook frame: the close hook of a transport leaves the table as
\* it was but for the entry under that transport's own session id, which is
\* gone; for a transport without session id the table is unchanged; no
\* session id changes.
C28_CloseHookFrame ==
    [][(out = Quiet /\ out'.pc = "hook") =>
          /\ transports' = SelectSeq(transports, LAMBDA e : e.key # sessionId[out'.t])
          /\ sessionId[out'.t] = Undefined => transports' = transports
          /\ sessionId' = sessionId]_vars

\* The hook removed a session while an initialization that has registered
\* another session is still in flight.
C28_Witness ==
    /\ out.pc = "hook"
    /\ out.had
    /\ \E q \in InFlight :
          /\ q.branch = "init"
          /\ TransportOf(q) # out.t
          /\ TransportOf(q) \in Registered

\* The keys closeAllTransports has yet to visit.
Pending == {sweep.keys[n] : n \in DOMAIN sweep.keys}

C30_LateRegistrationSwept ==
    sweep.pc = "returned" => Keys(transports) \subseteq AtStart

====
